---- MODULE Spec2Model ----
(***************************************************************************)
(* A model of RedditStream (src/stream.py): the token check, the listing   *)
(* request, the per-item dedup / cursor loop of stream_listing, the pacing *)
(* sleep and the backoff handler.                                          *)
(*                                                                         *)
(* Time is counted in whole seconds.  The inputs are chosen so that the    *)
(* float arithmetic of the source is exact on them: lifetimes are          *)
(* multiples of 10 (so that 0.9 * lifetime is whole) and `remaining`       *)
(* divides `reset`.                                                        *)
(*                                                                         *)
(* The stream is run in two worlds.  In the world of Spec the server has   *)
(* a single item and everything takes time: requests, the consumer, the    *)
(* sleeps; its consumer only iterates.  In the world of SpecItems the      *)
(* server has three items and a cache of two entries overflows, while      *)
(* requests and consumer are instantaneous; its consumer may also call     *)
(* reset_stream or start a new generator while it holds an item.           *)
(***************************************************************************)
EXTENDS Integers, Sequences, FiniteSets, TLC

(***************************************************************************)
(* Program constants, src/stream.py:15-17.                                 *)
(***************************************************************************)
BACKOFF_START == 2
BACKOFF_INCREASE_FACTOR == 2
BACKOFF_MAX == 8

(***************************************************************************)
(* Bounds of the model.  LRU_CACHE_SIZE (200 at src/stream.py:18) and      *)
(* STREAM_LIMIT_PER_FETCH (100 at src/stream.py:14) are scaled down so     *)
(* that the cache overflows and a page fills up within a few items.        *)
(***************************************************************************)
LRU_CACHE_SIZE == 2
STREAM_LIMIT_PER_FETCH == 3
MaxNow == 14
MaxLog == 2
MaxFails == 4
MaxNowItems == 4
MaxLogItems == 5
MaxFailsItems == 1
MaxStreams == 2
MaxResets == 1

NoneVal == "None"

Min(a, b) == IF a < b THEN a ELSE b
Max(a, b) == IF a > b THEN a ELSE b

(***************************************************************************)
(* Inputs.  An id is the sequence of its characters; so is a header value. *)
(* The three ids are ordered 9 < a < 10 as base-36 numbers and             *)
(* 10 < 9 < a as strings.                                                  *)
(***************************************************************************)
Things ==
    { [id |-> <<"9">>,      name |-> "t3_9"],
      [id |-> <<"a">>,      name |-> "t3_a"],
      [id |-> <<"1", "0">>, name |-> "t3_10"] }

Lifetimes == {10}

H0 == <<"0">>
H5 == <<"5">>
H10 == <<"1", "0">>
HBad == <<"a", "b", "c">>

\* The headers of a listing response: complete and numeric, one missing,
\* one not a number.
HeaderSets ==
    { [h \in {"X-Ratelimit-Used", "X-Ratelimit-Remaining", "X-Ratelimit-Reset"} |->
          IF h = "X-Ratelimit-Remaining" THEN r
          ELSE IF h = "X-Ratelimit-Reset" THEN H10 ELSE H5] : r \in {H0, H5} }
    \cup
    { [h \in {"X-Ratelimit-Used", "X-Ratelimit-Remaining"} |-> H5] }
    \cup
    { [h \in {"X-Ratelimit-Used", "X-Ratelimit-Remaining", "X-Ratelimit-Reset"} |->
          IF h = "X-Ratelimit-Remaining" THEN HBad ELSE H10] }

\* A page of the listing: at most `limit` distinct items, in any order.
Listings(things, limit) ==
    { s \in UNION { [1..n -> things] : n \in 0..Min(limit, Cardinality(things)) } :
        \A i, j \in DOMAIN s : i # j => s[i] # s[j] }

(***************************************************************************)
(* int(x, 36) and float(x) on character sequences.                         *)
(***************************************************************************)
Alphabet36 ==
    << "0", "1", "2", "3", "4", "5", "6", "7", "8", "9", "a", "b", "c", "d", "e", "f",
       "g", "h", "i", "j", "k", "l", "m", "n", "o", "p", "q", "r", "s", "t", "u", "v",
       "w", "x", "y", "z" >>

DigitValue(c) == (CHOOSE i \in 1..36 : Alphabet36[i] = c) - 1

RECURSIVE ParseInt(_, _)
ParseInt(s, base) ==
    IF Len(s) = 0 THEN 0
    ELSE ParseInt(SubSeq(s, 1, Len(s) - 1), base) * base + DigitValue(s[Len(s)])

\* float(x) raises ValueError unless x is a numeral
IsNumeral(s) ==
    /\ Len(s) > 0
    /\ \A i \in 1..Len(s) : \E k \in 1..10 : Alphabet36[k] = s[i]

Float(s) == ParseInt(s, 10)

\* the sort key of line 147
SortKeyLexicographic(d) ==
    LET RECURSIVE Pad(_)
        Pad(s) == IF Len(s) >= 2 THEN s ELSE Pad(s \o <<"0">>)
    IN  ParseInt(Pad(d.id), 36)

SortKey(d) == ParseInt(d.id, 36)

\* sorted(children, key=...): a stable sort
RECURSIVE InsertSorted(_, _)
InsertSorted(d, s) ==
    IF s = <<>> THEN <<d>>
    ELSE IF SortKey(s[Len(s)]) <= SortKey(d) THEN Append(s, d)
    ELSE Append(InsertSorted(d, SubSeq(s, 1, Len(s) - 1)), s[Len(s)])

RECURSIVE Sorted(_)
Sorted(s) ==
    IF s = <<>> THEN <<>>
    ELSE InsertSorted(s[Len(s)], Sorted(SubSeq(s, 1, Len(s) - 1)))

(***************************************************************************)
(* pylru.lrucache(LRU_CACHE_SIZE): the keys, most recently used first.     *)
(***************************************************************************)
CacheContains(c, k) == \E i \in 1..Len(c) : c[i] = k

SeqWithout(c, k) ==
    LET RECURSIVE F(_)
        F(s) == IF s = <<>> THEN <<>>
                ELSE IF s[1] = k THEN F(Tail(s)) ELSE <<s[1]>> \o F(Tail(s))
    IN  F(c)

CacheSetSmaller(c, k) ==
    IF CacheContains(c, k) THEN <<k>> \o SeqWithout(c, k)
    ELSE <<k>> \o (IF Len(c) >= LRU_CACHE_SIZE - 1
                   THEN SubSeq(c, 1, LRU_CACHE_SIZE - 2) ELSE c)

\* cache[k] = 1: refresh k, or insert it and evict the least recently used
CacheSet(c, k) ==
    IF CacheContains(c, k) THEN <<k>> \o SeqWithout(c, k)
    ELSE <<k>> \o (IF Len(c) >= LRU_CACHE_SIZE
                   THEN SubSeq(c, 1, LRU_CACHE_SIZE - 1) ELSE c)


(***************************************************************************)
(* Responses of the two endpoints.                                         *)
(***************************************************************************)
\* the token endpoint: status ok or not, an 'error' field or not, expires_in
TokenResponses ==
    { [ok |-> FALSE, error |-> FALSE, expires_in |-> 0],
      [ok |-> TRUE,  error |-> TRUE,  expires_in |-> 0] }
    \cup { [ok |-> TRUE, error |-> FALSE, expires_in |-> n] : n \in Lifetimes }

FullHeaders == CHOOSE h \in HeaderSets :
    /\ DOMAIN h = {"X-Ratelimit-Used", "X-Ratelimit-Remaining", "X-Ratelimit-Reset"}
    /\ h["X-Ratelimit-Remaining"] = H5

\* the listing endpoint: status, body (not JSON, JSON without 'data', a
\* listing with its children) and headers
ListingResponses(things, headers, limit) ==
    { [ok |-> FALSE, body |-> "listing", children |-> <<>>, headers |-> FullHeaders],
      [ok |-> TRUE,  body |-> "not_json", children |-> <<>>, headers |-> FullHeaders],
      [ok |-> TRUE,  body |-> "no_data", children |-> <<>>, headers |-> FullHeaders] }
    \cup { [ok |-> TRUE, body |-> "listing", children |-> c, headers |-> h] :
             c \in Listings(things, limit), h \in headers }

\* The two worlds: what the server has, how long things take, the arguments
\* of stream_listing, and where the exploration stops.
TimedWorld ==
    [ things |-> { d \in Things : d.name = "t3_9" },
      headers |-> HeaderSets,
      latencies |-> {0, 1},
      consumer_times |-> {0, 2},
      arguments |-> {<<1, 0>>, <<2, 1>>},
      max_now |-> MaxNow,
      max_log |-> MaxLog,
      max_fails |-> MaxFails,
      max_streams |-> MaxStreams,
      max_resets |-> MaxResets ]

ItemsWorld ==
    [ things |-> Things,
      headers |-> {FullHeaders},
      latencies |-> {0},
      consumer_times |-> {0},
      arguments |-> {<<1, 0>>},
      max_now |-> MaxNowItems,
      max_log |-> MaxLogItems,
      max_fails |-> MaxFailsItems,
      max_streams |-> MaxStreams,
      max_resets |-> MaxResets ]

\* lines 74-79: the query of a listing request; `after` and `before` are
\* sent only when they are set
BuildParams(limit, before, after) ==
    LET keys == {"limit", "raw_json", "show"}
                \cup (IF after # NoneVal /\ after # "" THEN {"after"} ELSE {})
                \cup (IF before # NoneVal /\ before # "" THEN {"before"} ELSE {})
    IN  [k \in keys |->
            CASE k = "limit" -> limit
              [] k = "raw_json" -> 1
              [] k = "show" -> "all"
              [] k = "after" -> after
              [] k = "before" -> before]

(***************************************************************************)
(* State.                                                                  *)
(***************************************************************************)
VARIABLES
    world,              \* the world the stream runs in
    access_token,       \* self.access_token
    expires,            \* self.expires
    latest_before,      \* self.latest_before
    concurrency_level,  \* argument of stream_listing
    extra_delay,        \* argument of stream_listing
    cache,              \* the lrucache of stream_listing
    backoff,
    time_start,
    children,
    sorted_children,
    count,              \* index of the enumerate loop, 0-based
    response_headers,
    t_sleep,
    pc,                 \* where the generator stands
    exception,          \* what the generator raised to the consumer
    now,                \* time.time()
    credentials,        \* username, password, client id and secret, user agent
    streams,            \* the calls of stream_listing so far
    consumed,           \* the items processed by the earlier generators
    resets,             \* the calls of reset_stream so far
    \* what an observer of the stream records
    request,            \* the parameters of the last listing request
    event,              \* what the last request of the current cycle came to
    fails,              \* failed cycles since the last successful one
    prev_fails,         \* failed cycles right before the last successful one
    tokcheck,           \* the last call of the token check
    log,                \* the items processed so far, emitted or suppressed
    batch_emitted,      \* the items emitted from the current batch
    reset_at,           \* index of the item at whose yield reset_stream was
                        \* called since the last listing request, or -1
    sleeps,             \* the sleeps completed since the last listing request
    response_at         \* when the last page arrived

vars == << world, access_token, expires, latest_before, concurrency_level, extra_delay,
           cache, backoff, time_start, children, sorted_children, count,
           response_headers, t_sleep, pc, exception, now, request, event, fails,
           prev_fails, tokcheck, log, batch_emitted, credentials, streams,
           consumed, resets,
           reset_at, sleeps, response_at >>

instance_vars == << access_token, expires, latest_before >>
args == << world, concurrency_level, extra_delay, prev_fails, credentials, streams,
          consumed >>
batch_vars == << children, sorted_children, count, response_headers >>

\* __init__, and the locals of stream_listing before its first cycle
InitIn(w) ==
    /\ world = w
    /\ access_token = NoneVal
    /\ expires = -1
    /\ latest_before = NoneVal
    /\ \E a \in w.arguments :
          /\ concurrency_level = a[1]
          /\ extra_delay = a[2]
    /\ cache = <<>>
    /\ backoff = BACKOFF_START
    /\ time_start = 0
    /\ children = <<>>
    /\ sorted_children = <<>>
    /\ count = 0
    /\ response_headers = FullHeaders
    /\ t_sleep = 0
    /\ pc = "loop"
    /\ exception = NoneVal
    /\ now = 0
    /\ request = <<>>
    /\ event = "none"
    /\ fails = 0
    /\ prev_fails = 0
    /\ tokcheck = [called |-> FALSE, expires |-> -1, posts |-> 0, returned |-> FALSE]
    /\ log = <<>>
    /\ batch_emitted = <<>>
    /\ credentials = [username |-> "username", password |-> "password",
                      client_id |-> "client_id", client_secret |-> "client_secret",
                      user_agent |-> "user_agent"]
    /\ streams = 1
    /\ consumed = 0
    /\ resets = 0
    /\ reset_at = -1
    /\ sleeps = <<>>
    /\ response_at = 0

Init == InitIn(TimedWorld)

InitItems == InitIn(ItemsWorld)

(***************************************************************************)
(* The two except clauses of stream_listing.                               *)
(***************************************************************************)
\* lines 129-134: a RequestException leaves the inner try as a StreamException
InnerTry(exc) == IF exc = "RequestException" THEN "StreamException" ELSE exc

HandledUnwrapped(exc) == exc = "StreamException"

\* line 180: except StreamException
Handled(exc) == InnerTry(exc) = "StreamException"

ThrowNoSleep(exc, ev) ==
    /\ event' = ev
    /\ IF Handled(exc)
       THEN /\ fails < world.max_fails
            /\ pc' = "loop"
            /\ fails' = fails + 1
            /\ exception' = exception
       ELSE /\ pc' = "raised"
            /\ exception' = exc
            /\ fails' = fails

\* an exception raised in the try block: the handler starts its sleep, or
\* the exception leaves the generator
Throw(exc, ev) ==
    /\ event' = ev
    /\ IF Handled(exc)
       THEN /\ fails < world.max_fails
            /\ pc' = "sleep_backoff"
            /\ fails' = fails + 1
            /\ exception' = exception
       ELSE /\ pc' = "raised"
            /\ exception' = exc
            /\ fails' = fails

(***************************************************************************)
(* _check_token_expiry and _update_access_token, lines 37-68.              *)
(***************************************************************************)
TokenExpiredNoRefresh(e, t) == e = -1

TokenExpired(e, t) == e = -1 \/ t > e

\* line 64: time.time() + int(expires_in) * 0.9
Expiry(t, expires_in) == t + (expires_in * 9) \div 10

\* the token is still valid: no exchange
CheckTokenValid ==
    /\ pc = "loop"
    /\ ~TokenExpired(expires, now)
    /\ time_start' = now
    /\ tokcheck' = [called |-> TRUE, expires |-> expires, posts |-> 0, returned |-> TRUE]
    /\ pc' = "get"
    /\ UNCHANGED << resets, reset_at, sleeps, response_at, instance_vars, args, cache, backoff, batch_vars, t_sleep,
                    exception, now, request, event, fails, log, batch_emitted >>

UpdateAccessTokenClearsOnError(resp, latency) ==
    /\ pc = "loop"
    /\ TokenExpired(expires, now)
    /\ now + latency <= world.max_now
    /\ time_start' = now
    /\ now' = now + latency
    /\ IF ~resp.ok
       THEN /\ Throw("StreamException", "token_status")
            /\ UNCHANGED << access_token, expires >>
       ELSE IF resp.error
       THEN /\ Throw("StreamException", "token_json_error")
            /\ access_token' = NoneVal
            /\ expires' = -1
       ELSE /\ access_token' = "token"
            /\ expires' = Expiry(now', resp.expires_in)
            /\ pc' = "get"
            /\ UNCHANGED << exception, event, fails >>
    /\ tokcheck' = [called |-> TRUE, expires |-> expires, posts |-> 1,
                    returned |-> (pc' = "get")]
    /\ UNCHANGED << resets, reset_at, sleeps, response_at, latest_before, args, cache, backoff, batch_vars, t_sleep,
                    request, log, batch_emitted >>

\* one exchange, answered by the token endpoint
UpdateAccessToken(resp, latency) ==
    /\ pc = "loop"
    /\ TokenExpired(expires, now)
    /\ now + latency <= world.max_now
    /\ time_start' = now
    /\ now' = now + latency
    /\ IF ~resp.ok
       THEN /\ Throw("StreamException", "token_status")
            /\ UNCHANGED << access_token, expires >>
       ELSE IF resp.error
       THEN /\ Throw("StreamException", "token_json_error")
            /\ UNCHANGED << access_token, expires >>
       ELSE /\ access_token' = "token"
            /\ expires' = Expiry(now', resp.expires_in)
            /\ pc' = "get"
            /\ UNCHANGED << exception, event, fails >>
    /\ tokcheck' = [called |-> TRUE, expires |-> expires, posts |-> 1,
                    returned |-> (pc' = "get")]
    /\ UNCHANGED << resets, reset_at, sleeps, response_at, latest_before, args, cache, backoff, batch_vars, t_sleep,
                    request, log, batch_emitted >>

\* one exchange, requests.post raises
UpdateAccessTokenTransport(latency) ==
    /\ pc = "loop"
    /\ TokenExpired(expires, now)
    /\ now + latency <= world.max_now
    /\ time_start' = now
    /\ now' = now + latency
    /\ Throw("RequestException", "token_transport")
    /\ tokcheck' = [called |-> TRUE, expires |-> expires, posts |-> 1, returned |-> FALSE]
    /\ UNCHANGED << resets, reset_at, sleeps, response_at, instance_vars, args, cache, backoff, batch_vars, t_sleep,
                    request, log, batch_emitted >>


(***************************************************************************)
(* _get_raw_listing after the token check, lines 74-102, and lines 129-147 *)
(* of stream_listing.                                                      *)
(***************************************************************************)
HeaderNames == {"X-Ratelimit-Used", "X-Ratelimit-Remaining", "X-Ratelimit-Reset"}

\* session.get raises
GetRawListingTransport(latency) ==
    /\ pc = "get"
    /\ now + latency <= world.max_now
    /\ now' = now + latency
    /\ reset_at' = -1
    /\ sleeps' = <<>>
    /\ request' = BuildParams(STREAM_LIMIT_PER_FETCH, latest_before, NoneVal)
    /\ Throw("RequestException", "get_transport")
    /\ UNCHANGED << resets, response_at, instance_vars, args, cache, backoff, time_start, batch_vars,
                    t_sleep, tokcheck, log, batch_emitted >>

\* the listing endpoint answers, and the answer is not a page with its headers
GetRawListingFails(resp, latency, json_error) ==
    /\ pc = "get"
    /\ now + latency <= world.max_now
    /\ now' = now + latency
    /\ reset_at' = -1
    /\ sleeps' = <<>>
    /\ request' = BuildParams(STREAM_LIMIT_PER_FETCH, latest_before, NoneVal)
    /\ \/ /\ ~resp.ok
          /\ Throw("StreamException", "get_status")
       \/ /\ resp.ok
          /\ resp.body = "not_json"
          \* response.json() raises ValueError, or a RequestException from
          \* requests 2.27 on
          /\ Throw(json_error, "get_not_json")
       \/ /\ resp.ok
          /\ resp.body # "not_json"
          /\ DOMAIN resp.headers # HeaderNames
          /\ Throw("KeyError", "get_missing_header")
       \/ /\ resp.ok
          /\ resp.body = "no_data"
          /\ DOMAIN resp.headers = HeaderNames
          /\ Throw("KeyError", "get_no_data")
    /\ UNCHANGED << resets, response_at, instance_vars, args, cache, backoff, time_start, batch_vars,
                    t_sleep, tokcheck, log, batch_emitted >>

\* the listing endpoint answers with a page: it is sorted and the loop starts
GetRawListing(resp, latency) ==
    /\ pc = "get"
    /\ now + latency <= world.max_now
    /\ resp.ok
    /\ resp.body = "listing"
    /\ DOMAIN resp.headers = HeaderNames
    /\ consumed + Len(log) + Len(resp.children) <= world.max_log
    /\ now' = now + latency
    /\ reset_at' = -1
    /\ sleeps' = <<>>
    /\ request' = BuildParams(STREAM_LIMIT_PER_FETCH, latest_before, NoneVal)
    /\ response_headers' = resp.headers
    /\ children' = resp.children
    /\ sorted_children' = Sorted(resp.children)
    /\ count' = 0
    /\ batch_emitted' = <<>>
    /\ event' = "get_ok"
    /\ response_at' = now'
    /\ pc' = "process"
    /\ UNCHANGED << resets, instance_vars, args, cache, backoff, time_start, t_sleep,
                    exception, fails, tokcheck, log >>

(***************************************************************************)
(* The loop over the sorted children, lines 148-158.                       *)
(***************************************************************************)
AdvanceCursorAlways(lb, cnt, n, fullname) == fullname

AdvanceCursorOnLast(lb, cnt, n, fullname) == IF cnt = n - 1 THEN fullname ELSE lb

\* lines 157-158
AdvanceCursor(lb, cnt, n, fullname) == IF cnt # n - 1 THEN fullname ELSE lb

\* lines 153-158, for the child at index `count`
AfterItem(d) ==
    /\ cache' = CacheSet(cache, d.name)
    /\ latest_before' = AdvanceCursor(latest_before, count, Len(children), d.name)
    /\ count' = count + 1

\* line 151-152: the child is new, the generator yields it and is suspended
YieldItem ==
    /\ pc = "process"
    /\ count < Len(sorted_children)
    /\ LET d == sorted_children[count + 1] IN
         /\ ~CacheContains(cache, d.name)
         /\ log' = Append(log, [name |-> d.name, emitted |-> TRUE])
         /\ batch_emitted' = Append(batch_emitted, d)
    /\ pc' = "yielded"
    /\ UNCHANGED << resets, reset_at, sleeps, response_at, instance_vars, args, cache, backoff, time_start, batch_vars,
                    t_sleep, exception, now, request, event, fails, tokcheck >>

\* the consumer asks for the next item: the generator goes on after the yield
ResumeAfterYield(consumer_time) ==
    /\ pc = "yielded"
    /\ now + consumer_time <= world.max_now
    /\ now' = now + consumer_time
    /\ AfterItem(sorted_children[count + 1])
    /\ pc' = "process"
    /\ UNCHANGED << resets, reset_at, sleeps, response_at, access_token, expires, args, backoff, time_start, children,
                    sorted_children, response_headers, t_sleep, exception,
                    request, event, fails, tokcheck, log, batch_emitted >>

\* line 151: the child is in the cache, nothing is yielded
SkipItem ==
    /\ pc = "process"
    /\ count < Len(sorted_children)
    /\ LET d == sorted_children[count + 1] IN
         /\ CacheContains(cache, d.name)
         /\ log' = Append(log, [name |-> d.name, emitted |-> FALSE])
         /\ AfterItem(d)
    /\ UNCHANGED << resets, reset_at, sleeps, response_at, access_token, expires, args, backoff, time_start, children,
                    sorted_children, response_headers, t_sleep, pc, exception,
                    now, request, event, fails, tokcheck, batch_emitted >>

(***************************************************************************)
(* After the loop, lines 159-179.                                          *)
(***************************************************************************)
EmptyBatchKeep(lb, n) == lb

\* lines 162-166
EmptyBatch(lb, n) == IF n = 0 THEN NoneVal ELSE lb

RlSleepDivided(rl_reset_time, rl_remaining, level) ==
    IF rl_remaining = 0 THEN rl_reset_time
    ELSE (rl_reset_time \div rl_remaining) \div level

\* line 171
RlSleep(rl_reset_time, rl_remaining, level) ==
    IF rl_remaining = 0 THEN rl_reset_time
    ELSE (rl_reset_time \div rl_remaining) * level

TSleepUnclamped(rl_sleep, process_time, extra) == rl_sleep - process_time + extra

\* line 173
TSleep(rl_sleep, process_time, extra) == Max(rl_sleep - process_time, 0) + extra

EndBatch ==
    /\ pc = "process"
    /\ count = Len(sorted_children)
    /\ latest_before' = EmptyBatch(latest_before, Len(children))
    /\ LET reset == response_headers["X-Ratelimit-Reset"]
           remaining == response_headers["X-Ratelimit-Remaining"]
       IN  IF ~IsNumeral(reset) \/ ~IsNumeral(remaining)
           THEN /\ Throw("ValueError", "bad_header_value")
                /\ UNCHANGED t_sleep
           ELSE /\ t_sleep' = TSleep(RlSleep(Float(reset), Float(remaining),
                                             concurrency_level),
                                     now - time_start, extra_delay)
                /\ pc' = "sleep_pacing"
                /\ UNCHANGED << exception, event, fails >>
    /\ UNCHANGED << resets, reset_at, sleeps, response_at, access_token, expires, args, cache, backoff, time_start,
                    batch_vars, now, request, tokcheck, log, batch_emitted >>

BackoffReset(b) == b

\* line 188
ResetBackoff(b) == BACKOFF_START

\* what a sleep followed: a completed cycle, a failure of the listing request
\* or after it, a failure before the listing request
Cause(ev) ==
    IF ev = "get_ok" THEN "completed"
    ELSE IF ev \in {"token_status", "token_json_error", "token_transport"}
    THEN "token"
    ELSE "listing"

\* line 179, then the else clause of the try
WakePacing ==
    /\ pc = "sleep_pacing"
    /\ sleeps' = Append(sleeps, [kind |-> "pacing", cause |-> Cause(event)])
    /\ now + t_sleep <= world.max_now
    /\ now' = now + t_sleep
    /\ backoff' = ResetBackoff(backoff)
    /\ fails' = 0
    /\ prev_fails' = fails
    /\ event' = "none"
    /\ pc' = "loop"
    /\ UNCHANGED << reset_at, response_at, instance_vars, world, concurrency_level,
                    extra_delay, credentials, streams, consumed, resets, cache, time_start, batch_vars, t_sleep,
                    exception, request, tokcheck, log, batch_emitted >>

NextBackoffUncapped(b) == b * BACKOFF_INCREASE_FACTOR

\* line 186
NextBackoff(b) == Min(b * BACKOFF_INCREASE_FACTOR, BACKOFF_MAX)

WakeBackoffNewCache ==
    /\ pc = "sleep_backoff"
    /\ sleeps' = Append(sleeps, [kind |-> "backoff", cause |-> Cause(event)])
    /\ now + backoff <= world.max_now
    /\ now' = now + backoff
    /\ backoff' = NextBackoff(backoff)
    /\ cache' = <<>>
    /\ event' = "none"
    /\ pc' = "loop"
    /\ UNCHANGED << resets, reset_at, response_at, instance_vars, args, time_start,
                    batch_vars, t_sleep, exception, request, fails, tokcheck, log,
                    batch_emitted >>

\* lines 185-186
WakeBackoff ==
    /\ pc = "sleep_backoff"
    /\ sleeps' = Append(sleeps, [kind |-> "backoff", cause |-> Cause(event)])
    /\ now + backoff <= world.max_now
    /\ now' = now + backoff
    /\ backoff' = NextBackoff(backoff)
    /\ event' = "none"
    /\ pc' = "loop"
    /\ UNCHANGED << resets, reset_at, response_at, instance_vars, args, cache, time_start, batch_vars, t_sleep,
                    exception, request, fails, tokcheck, log, batch_emitted >>

(***************************************************************************)
(* What the consumer can do while the generator is suspended at a yield:   *)
(* call reset_stream (lines 104-107), or drop the generator and call       *)
(* stream_listing again, with the same arguments (lines 121-123).  It can  *)
(* also call stream_listing again after the generator raised.              *)
(***************************************************************************)
ResetStreamKeepsToken ==
    /\ pc = "yielded"
    /\ resets < world.max_resets
    /\ resets' = resets + 1
    /\ latest_before' = NoneVal
    /\ reset_at' = count
    /\ UNCHANGED << access_token, expires, args, cache, backoff, time_start,
                    batch_vars, t_sleep, pc, exception, now, request, event, fails,
                    tokcheck, log, batch_emitted, sleeps, response_at >>

ResetStream ==
    /\ pc = "yielded"
    /\ resets < world.max_resets
    /\ resets' = resets + 1
    /\ access_token' = NoneVal
    /\ expires' = -1
    /\ latest_before' = NoneVal
    /\ reset_at' = count
    /\ UNCHANGED << args, cache, backoff, time_start, batch_vars, t_sleep, pc,
                    exception, now, request, event, fails, tokcheck, log,
                    batch_emitted, sleeps, response_at >>

\* the locals of a new generator, and a new record for its observer
NewLocals ==
    /\ pc \in {"yielded", "raised"}
    /\ streams < world.max_streams
    /\ streams' = streams + 1
    /\ consumed' = consumed + Len(log)
    /\ cache' = <<>>
    /\ backoff' = BACKOFF_START
    /\ time_start' = 0
    /\ children' = <<>>
    /\ sorted_children' = <<>>
    /\ count' = 0
    /\ response_headers' = FullHeaders
    /\ t_sleep' = 0
    /\ pc' = "loop"
    /\ exception' = NoneVal
    /\ request' = <<>>
    /\ event' = "none"
    /\ fails' = 0
    /\ prev_fails' = 0
    /\ log' = <<>>
    /\ batch_emitted' = <<>>
    /\ sleeps' = <<>>
    /\ response_at' = 0
    /\ UNCHANGED << resets, world, concurrency_level, extra_delay, credentials, now,
                    tokcheck, reset_at >>

NewStreamForgetsCursor ==
    /\ NewLocals
    /\ latest_before' = NoneVal
    /\ UNCHANGED << access_token, expires >>

NewStream ==
    /\ NewLocals
    /\ UNCHANGED instance_vars

Next ==
    \/ CheckTokenValid
    \/ \E resp \in TokenResponses, latency \in world.latencies :
          UpdateAccessToken(resp, latency)
    \/ \E latency \in world.latencies : UpdateAccessTokenTransport(latency)
    \/ \E latency \in world.latencies : GetRawListingTransport(latency)
    \/ \E resp \in ListingResponses(world.things, world.headers, STREAM_LIMIT_PER_FETCH), latency \in world.latencies,
          json_error \in {"ValueError", "RequestException"} :
          GetRawListingFails(resp, latency, json_error)
    \/ \E resp \in ListingResponses(world.things, world.headers, STREAM_LIMIT_PER_FETCH), latency \in world.latencies :
          GetRawListing(resp, latency)
    \/ YieldItem
    \/ \E consumer_time \in world.consumer_times : ResumeAfterYield(consumer_time)
    \/ SkipItem
    \/ EndBatch
    \/ WakePacing
    \/ WakeBackoff

\* the stream with a consumer that also resets it or starts it anew
NextItems ==
    \/ Next
    \/ ResetStream
    \/ NewStream

Spec == Init /\ [][Next]_vars

SpecItems == InitItems /\ [][NextItems]_vars


(***************************************************************************)
(* Properties.                                                             *)
(***************************************************************************)
RetryableEvents ==
    {"token_status", "token_json_error", "token_transport", "get_status",
     "get_transport"}

\* C1: a cycle that fails in the token exchange (status or 'error' field),
\* by the status of the listing response or by a transport exception raises
\* nothing to the consumer: the generator sleeps the backoff delay and then
\* starts a new cycle.
C1_FailureIsRetried ==
    [][ /\ event' \in RetryableEvents =>
              /\ pc' = "sleep_backoff"
              /\ exception' = NoneVal
        /\ pc = "sleep_backoff" =>
              /\ pc' = "loop"
              /\ now' = now + backoff ]_vars

C1_Witness ==
    /\ pc = "sleep_backoff"
    /\ event = "get_transport"
    /\ fails >= 3

MalformedEvents ==
    {"get_missing_header", "bad_header_value", "get_not_json", "get_no_data"}

\* C2: a successful listing response with missing or non-numeric rate-limit
\* headers, or with a malformed body, is retried after the backoff delay
\* and raises nothing to the consumer.
C2_MalformedIsRetried ==
    event \in MalformedEvents => pc = "sleep_backoff" /\ exception = NoneVal

EmittedTwice(i, j) ==
    /\ i < j
    /\ log[i].emitted
    /\ log[j].emitted
    /\ log[i].name = log[j].name

\* C3 as stated: no fullname is emitted twice within a window of
\* consecutively emitted items that has at most LRU_CACHE_SIZE distinct
\* fullnames.
C3_NoRepeatAmongEmitted ==
    \A i, j \in 1..Len(log) :
        EmittedTwice(i, j) =>
            Cardinality({ log[k].name : k \in { m \in i..j : log[m].emitted } })
                > LRU_CACHE_SIZE

\* C3 amended: no fullname is emitted twice within a window of consecutively
\* processed items (emitted or suppressed) that has at most LRU_CACHE_SIZE
\* distinct fullnames.
C3_NoRepeatAmongProcessed ==
    \A i, j \in 1..Len(log) :
        EmittedTwice(i, j) =>
            Cardinality({ log[k].name : k \in i..j }) > LRU_CACHE_SIZE

C3_Witness ==
    \E i, j \in 1..Len(log) :
        /\ i + LRU_CACHE_SIZE <= j
        /\ log[i].name = log[j].name
        /\ log[i].emitted
        /\ ~log[j].emitted
        /\ Cardinality({ log[k].name : k \in i..j }) = LRU_CACHE_SIZE

\* C4: a fullname assigned to latest_before is that of an item already
\* handed to the consumer, and is not the fullname of the last item of the
\* batch being processed.
C4_CursorBehindEmitted ==
    [][ (latest_before' # latest_before /\ latest_before' # NoneVal) =>
            /\ \E i \in 1..Len(log) :
                  log[i].emitted /\ log[i].name = latest_before'
            /\ latest_before' # sorted_children[Len(sorted_children)].name ]_vars

C4_Witness ==
    /\ pc = "sleep_pacing"
    /\ \E i \in 1..Len(log) : ~log[i].emitted /\ log[i].name = latest_before

\* C5: the k-th consecutive failed cycle sleeps
\* min(BACKOFF_START * 2^(k-1), BACKOFF_MAX), and the backoff delay always
\* lies between BACKOFF_START and BACKOFF_MAX.
C5_BackoffDoubles ==
    /\ backoff >= BACKOFF_START
    /\ backoff <= BACKOFF_MAX
    /\ pc = "sleep_backoff" =>
          backoff = Min(BACKOFF_START * BACKOFF_INCREASE_FACTOR ^ (fails - 1),
                        BACKOFF_MAX)

C5_Witness ==
    /\ pc = "sleep_backoff"
    /\ fails = 4
    /\ backoff = BACKOFF_MAX

\* C6: after a cycle that completes without error the backoff delay is
\* BACKOFF_START, and the first failure after it sleeps BACKOFF_START,
\* however many failures came before.
C6_BackoffResets ==
    /\ fails = 0 => backoff = BACKOFF_START
    /\ (pc = "sleep_backoff" /\ fails = 1) => backoff = BACKOFF_START

C6_Witness ==
    /\ prev_fails >= 2
    /\ pc = "sleep_backoff"
    /\ fails = 1

IdNumber(d) ==
    CASE d.name = "t3_9" -> 9
      [] d.name = "t3_a" -> 10
      [] d.name = "t3_10" -> 36

\* C7: the items emitted from one batch come in non-decreasing order of
\* their base-36 id.
C7_BatchEmittedInIdOrder ==
    \A i, j \in 1..Len(batch_emitted) :
        i < j => IdNumber(batch_emitted[i]) <= IdNumber(batch_emitted[j])

C7_Witness ==
    /\ Len(batch_emitted) = 2
    /\ Len(children) = 3
    /\ count = 3
    /\ children # sorted_children

\* C8: an empty batch emits nothing and unsets latest_before, and the next
\* listing request carries no `before`.
C8_EmptyBatchUnsetsCursor ==
    [][ /\ (pc = "process" /\ children = <<>> /\ pc' # "process") =>
              /\ latest_before' = NoneVal
              /\ log' = log
              /\ batch_emitted' = <<>>
        /\ (/\ pc = "get"
            /\ pc' # "get"
            /\ children = <<>>
            /\ sleeps # <<>>
            /\ sleeps[1].cause = "completed") =>
              "before" \notin DOMAIN request' ]_vars

C8_Witness ==
    /\ pc = "sleep_pacing"
    /\ children = <<>>
    /\ "before" \in DOMAIN request
    /\ latest_before = NoneVal

\* C9: a call of the token check makes one exchange when the token is unset
\* or the time is past the expiry, and none otherwise; when it returns, the
\* token is set and not expired.
C9_TokenCheck ==
    /\ tokcheck.called =>
          tokcheck.posts =
              IF tokcheck.expires = -1 \/ time_start > tokcheck.expires THEN 1 ELSE 0
    /\ pc = "get" =>
          /\ tokcheck.returned
          /\ access_token # NoneVal
          /\ expires # -1
          /\ now <= expires

C9_Witness ==
    /\ pc = "get"
    /\ tokcheck.posts = 1
    /\ tokcheck.expires # -1
    /\ time_start = tokcheck.expires + 1

HeaderNumber(h) ==
    CASE h = H0 -> 0
      [] h = H5 -> 5
      [] h = H10 -> 10

\* C10: the pacing sleep is max(target - elapsed, 0) + extra_delay, where
\* target is reset when remaining is 0 and
\* (reset / remaining) * concurrency_level otherwise; it is not negative.
C10_PacingDelay ==
    pc = "sleep_pacing" =>
        LET reset == HeaderNumber(response_headers["X-Ratelimit-Reset"])
            remaining == HeaderNumber(response_headers["X-Ratelimit-Remaining"])
            elapsed == now - time_start
            target == IF remaining = 0 THEN reset
                      ELSE (reset * concurrency_level) \div remaining
        IN  /\ t_sleep = (IF target > elapsed THEN target - elapsed ELSE 0)
                         + extra_delay
            /\ t_sleep >= 0

C10_Witness ==
    /\ pc = "sleep_pacing"
    /\ response_headers["X-Ratelimit-Remaining"] = H5
    /\ response_headers["X-Ratelimit-Reset"] = H10
    /\ concurrency_level = 1
    /\ extra_delay = 0
    /\ now - time_start = 1
    /\ t_sleep = 1

\* the pacing delay the stream would have computed from the same response,
\* elapsed time and extra_delay had it been called with concurrency_level l
PacingDelayAt(l) ==
    TSleep(RlSleep(HeaderNumber(response_headers["X-Ratelimit-Reset"]),
                   HeaderNumber(response_headers["X-Ratelimit-Remaining"]), l),
           now - time_start, extra_delay)

PacingWithQuotaLeft ==
    /\ pc = "sleep_pacing"
    /\ HeaderNumber(response_headers["X-Ratelimit-Remaining"]) > 0

\* C11 as stated: with remaining > 0 and the same response, elapsed time and
\* extra_delay, a larger concurrency_level never gives a larger pacing delay.
C11_LargerLevelNeverSlower ==
    PacingWithQuotaLeft =>
        \A l \in 1..3 :
            l > concurrency_level => PacingDelayAt(l) <= t_sleep

\* C11 amended: with remaining > 0 and the same response, elapsed time and
\* extra_delay, a larger concurrency_level never gives a smaller pacing
\* delay: the level scales the delay up.
C11_LargerLevelNeverFaster ==
    PacingWithQuotaLeft =>
        /\ t_sleep = PacingDelayAt(concurrency_level)
        /\ \A l \in 1..3 :
              l > concurrency_level => PacingDelayAt(l) >= t_sleep

C11_Witness ==
    /\ PacingWithQuotaLeft
    /\ concurrency_level = 1
    /\ PacingDelayAt(2) > t_sleep

\* C12: after a listing response with remaining = 0 and reset = R, the next
\* listing request is not issued before R seconds have passed since that
\* response arrived.
C12_FullWindowWaited ==
    [][ (/\ pc = "get"
         /\ pc' # "get"
         /\ sleeps # <<>>
         /\ sleeps[1].cause = "completed"
         /\ HeaderNumber(response_headers["X-Ratelimit-Remaining"]) = 0) =>
            now >= response_at
                     + HeaderNumber(response_headers["X-Ratelimit-Reset"]) ]_vars

\* C13: reset_stream unsets access_token, sets expires to -1 and unsets
\* latest_before in one step and leaves the credentials and the user agent
\* as they were; the first token check after it makes an exchange, so a
\* listing request after a reset comes after an exchange in its own cycle.
C13_ResetClearsTogether ==
    [][ /\ resets' # resets =>
              /\ access_token' = NoneVal
              /\ expires' = -1
              /\ latest_before' = NoneVal
              /\ credentials' = credentials
        /\ (pc = "get" /\ reset_at # -1) =>
              /\ tokcheck.expires = -1
              /\ tokcheck.posts = 1
              /\ tokcheck.returned ]_vars

C13_Witness ==
    /\ pc = "get"
    /\ reset_at # -1
    /\ request # <<>>
    /\ tokcheck.posts = 1
    /\ access_token # NoneVal

\* C14: a new call of stream_listing leaves latest_before as the earlier
\* generator stored it, and the first listing request of the new generator
\* carries that cursor as `before`.
C14_NewStreamResumes ==
    [][ /\ streams' # streams => latest_before' = latest_before
        /\ (streams > 1 /\ request = <<>> /\ request' = <<>>) =>
              latest_before' = latest_before
        /\ (/\ streams > 1
            /\ pc = "get"
            /\ pc' # "get"
            /\ request = <<>>
            /\ latest_before # NoneVal) =>
              /\ "before" \in DOMAIN request'
              /\ request'["before"] = latest_before ]_vars

C14_Witness ==
    /\ streams = 2
    /\ pc = "process"
    /\ log = <<>>
    /\ "before" \in DOMAIN request
    /\ request["before"] = "t3_9"

\* the cursor the current batch was requested with
CursorOfRequest ==
    IF "before" \in DOMAIN request THEN request["before"] ELSE NoneVal

\* the batch is processed to its end and the generator sleeps
BatchDone(n) ==
    /\ pc = "sleep_pacing"
    /\ Len(sorted_children) = n

\* C16 as stated: after a batch of n >= 2 items latest_before is the
\* fullname of the item with the second-highest id, and after a batch of one
\* item it is what it was before the batch.
C16_CursorAfterBatch ==
    /\ \A n \in 2..STREAM_LIMIT_PER_FETCH :
          BatchDone(n) => latest_before = sorted_children[n - 1].name
    /\ BatchDone(1) => latest_before = CursorOfRequest

\* C16 amended: the same, unless the consumer called reset_stream while the
\* last item of the batch was yielded to it; then latest_before is unset.
C16_CursorAfterBatchUnlessReset ==
    /\ \A n \in 2..STREAM_LIMIT_PER_FETCH :
          BatchDone(n) =>
              latest_before = IF reset_at = n - 1 THEN NoneVal
                              ELSE sorted_children[n - 1].name
    /\ BatchDone(1) =>
          latest_before = IF reset_at = 0 THEN NoneVal ELSE CursorOfRequest

C16_Witness ==
    /\ BatchDone(3)
    /\ Len(batch_emitted) = 2
    /\ reset_at = -1
    /\ latest_before = sorted_children[2].name
    /\ children # sorted_children

\* C17: the steps of a cycle that fails before its page is processed (the
\* token check, the failing request, the backoff sleep) emit no item and
\* leave latest_before, the cache and the arguments as they were; of the
\* state that outlives the cycle only backoff, access_token and expires may
\* change.
C17_FailedCycleFrame ==
    [][ (\/ pc = "loop" /\ pc' \in {"get", "sleep_backoff"}
         \/ pc = "get" /\ pc' = "sleep_backoff"
         \/ pc = "sleep_backoff" /\ pc' = "loop") =>
            /\ latest_before' = latest_before
            /\ cache' = cache
            /\ log' = log
            /\ batch_emitted' = batch_emitted
            /\ credentials' = credentials
            /\ concurrency_level' = concurrency_level
            /\ extra_delay' = extra_delay ]_vars

C17_Witness ==
    /\ pc = "loop"
    /\ sleeps # <<>>
    /\ sleeps[Len(sleeps)].kind = "backoff"
    /\ sleeps[Len(sleeps)].cause = "listing"
    /\ latest_before # NoneVal
    /\ Len(cache) = LRU_CACHE_SIZE
    /\ backoff = BACKOFF_START * BACKOFF_INCREASE_FACTOR

TokenRefusals == {"token_status", "token_json_error"}

\* C18: when the token exchange is refused (status not OK, or an 'error'
\* field in the body) access_token and expires keep their values and the
\* cycle issues no listing request: it goes to the backoff sleep, and the
\* token check of the following cycle makes an exchange again.
C18_RefusedExchange ==
    [][ /\ (pc = "loop" /\ event' \in TokenRefusals) =>
              /\ access_token' = access_token
              /\ expires' = expires
              /\ request' = request
              /\ pc' = "sleep_backoff"
        /\ (pc = "sleep_backoff" /\ event \in TokenRefusals) =>
              /\ access_token' = access_token
              /\ expires' = expires
              /\ request' = request
              /\ pc' = "loop"
        /\ (/\ pc = "loop"
            /\ sleeps # <<>>
            /\ sleeps[Len(sleeps)].cause = "token") =>
              tokcheck'.posts = 1 ]_vars

C18_Witness ==
    /\ pc = "sleep_backoff"
    /\ event = "token_json_error"
    /\ sleeps # <<>>
    /\ sleeps[Len(sleeps)].cause = "token"
    /\ access_token = "token"
    /\ now > expires
    /\ tokcheck.posts = 1

\* the sleep that follows the cycle of a listing request: the pacing sleep
\* when the cycle completed, the backoff sleep when it failed
SleepOfCycle(s) ==
    \/ s.kind = "pacing" /\ s.cause = "completed"
    \/ s.kind = "backoff" /\ s.cause = "listing"

\* a listing request is issued and an earlier one of the same generator exists
NextListingRequest ==
    /\ pc = "get"
    /\ request # <<>>

C20_ResetDropsCursor ==
    [][ (/\ pc = "get"
         /\ pc' # "get"
         /\ request # <<>>
         /\ reset_at # -1) =>
            "before" \notin DOMAIN request' ]_vars

====
